---- MODULE Spec2Model ----
(***************************************************************************)
(* Thread reconstruction of sklonger: the buffered assembly                *)
(* (BlueskyClient::get_thread_by_handle), the streamed assembly            *)
(* (BlueskyClient::get_thread_streaming) and the streaming HTTP handler    *)
(* (handlers::get_thread_streaming) that forwards stream items to the      *)
(* response body through a bounded channel.                                *)
(***************************************************************************)
EXTENDS Integers, Sequences, FiniteSets, TLC

(* ---------------------------- bounds ---------------------------------- *)
\* posts of an arbitrary reply forest
MaxPosts == 3
\* posts of a linear self-reply chain
MaxChain == 5

(* ------------------------ program constants --------------------------- *)
\* mpsc::channel(16)
ChannelCapacity == 16

(* ------------------------- the remote network ------------------------- *)
Dids == {"did:a", "did:b"}

HandleOf(did) == IF did = "did:a" THEN "a.test" ELSE "b.test"

DidOfHandle(handle) == IF handle = "a.test" THEN "did:a" ELSE "did:b"

\* a handle string that does not parse as a handle
BadHandle == "not a handle"

ValidHandles == {HandleOf(d) : d \in Dids}

\* API error strings, as the words they contain
\* An error text of the API is the sequence of its characters.
Status429 == <<"s", "t", "a", "t", "u", "s", " ", "4", "2", "9">>
Status4290 == Status429 \o <<"0">>
Status500 == <<"s", "t", "a", "t", "u", "s", " ", "5", "0", "0">>
ErrorRateLimited ==
    <<"e", "r", "r", "o", "r", " ", "R", "a", "t", "e", "L", "i", "m", "i", "t", "e", "d">>
ErrorRateLimitedX == ErrorRateLimited \o <<"X">>

ApiErrors ==
    {Status429, Status4290, ErrorRateLimited, ErrorRateLimitedX, Status500}

\* what one getPostThread round trip can come back with, besides the post
FetchOutcomes == {<<"ok">>, <<"unknown">>} \cup ApiErrors

ResolveOutcomes == {<<"ok">>} \cup ApiErrors

Flaws(n) ==
    {[post |-> 0, kind |-> "none"]} \cup
    {[post |-> p, kind |-> k] :
        p \in 1..n, k \in {"notFound", "blocked", "badRecord", "badDate"}}

\* replies are listed oldest first, or (in a forest without a flawed post)
\* newest first
FlawOrders(n) ==
    {[flaw |-> f, order |-> "asc"] : f \in Flaws(n)} \cup
    {[flaw |-> [post |-> 0, kind |-> "none"], order |-> "desc"]}

\* every reply forest over MaxPosts posts by two authors, each post replying
\* to an earlier post or to none; one post may be deleted, blocked, or carry
\* a record that does not serialise. The oldest post is by did:a: the code
\* treats no author specially, so swapping the two authors changes nothing
ForestWorlds ==
    { [n |-> MaxPosts, author |-> a, parent |-> par, flaw |-> fo.flaw, order |-> fo.order] :
        a \in {f \in [1..MaxPosts -> Dids] : f[1] = "did:a"},
        par \in {g \in [1..MaxPosts -> 0..MaxPosts] : \A p \in 1..MaxPosts : g[p] < p},
        fo \in FlawOrders(MaxPosts) }

\* a linear chain of len posts, each a reply to the one before; all by one
\* author, or headed by a post of another author
LinearChain(len, foreignHead) ==
    [n |-> len,
     author |-> [p \in 1..len |-> IF foreignHead /\ p = 1 THEN "did:b" ELSE "did:a"],
     parent |-> [p \in 1..len |-> p - 1],
     flaw |-> [post |-> 0, kind |-> "none"],
     order |-> "asc"]

ChainWorlds ==
    {LinearChain(len, FALSE) : len \in 1..MaxChain} \cup
    {LinearChain(len, TRUE) : len \in 2..MaxChain}

Worlds == ForestWorlds \cup ChainWorlds

\* the forests and chains the update requests are made for: deleted,
\* blocked and unserialisable posts are left to the walks above, and the
\* createdAt that may be unparsable is that of the newest post
UpdateWorlds ==
    {w \in Worlds :
        /\ w.order = "asc"
        /\ \/ w.flaw.kind = "none"
           \/ w.flaw.kind = "badDate" /\ w.flaw.post = w.n}

(* ------------------------------ values -------------------------------- *)
NoUri == [did |-> "", rkey |-> 0]

None == [some |-> FALSE, v |-> NoUri]

Some(uri) == [some |-> TRUE, v |-> uri]

Ok(v) == [ok |-> TRUE, v |-> v]

Err(e) == [ok |-> FALSE, v |-> e]

\* ClientError
NotFound == [tag |-> "NotFound", msg |-> <<>>]
Blocked == [tag |-> "Blocked", msg |-> <<>>]
RateLimited == [tag |-> "RateLimited", msg |-> <<>>]
InvalidResponse == [tag |-> "InvalidResponse", msg |-> <<>>]
Api(msg) == [tag |-> "Api", msg |-> msg]

\* str::contains: word occurs in str at some position, inside a longer
\* word or not
Contains(str, word) ==
    \E i \in 1..(Len(str) - Len(word) + 1) : SubSeq(str, i, i + Len(word) - 1) = word

map_api_error(err_str) ==
    IF \/ Contains(err_str, <<"4", "2", "9">>)
       \/ Contains(err_str, <<"R", "a", "t", "e", "L", "i", "m", "i", "t", "e", "d">>)
    THEN RateLimited
    ELSE Api(err_str)

\* format!("at://{}/app.bsky.feed.post/{}", did, post_id)
AtUri(did, post_id) == [did |-> did, rkey |-> post_id]

UriOf(w, p) == AtUri(w.author[p], p)

CidOf(p) == <<"cid", p>>

\* the instant post p was written, in milliseconds: posts are numbered in
\* the order they were written, one second apart
CreatedAt(p) == 1000 * p

\* record.createdAt of post p: the instant in RFC 3339, or something that
\* is not a timestamp (no field, no string, no date)
RecordCreatedAt(w, p) ==
    IF w.flaw.post = p /\ w.flaw.kind = "badDate"
    THEN [rfc3339 |-> FALSE, ms |-> 0]
    ELSE [rfc3339 |-> TRUE, ms |-> CreatedAt(p)]

\* the createdAt of a record in milliseconds since the epoch; the epoch
\* itself when it cannot be parsed
parse_created_at(value) == IF value.rfc3339 THEN value.ms ELSE 0

\* the post an at-uri addresses, 0 when there is none
PostAt(w, uri) ==
    IF uri.rkey \in 1..w.n /\ w.author[uri.rkey] = uri.did THEN uri.rkey ELSE 0

RECURSIVE AscSeq(_)
AscSeq(S) ==
    IF S = {} THEN <<>>
    ELSE LET m == CHOOSE x \in S : \A y \in S : x <= y
         IN <<m>> \o AscSeq(S \ {m})

Last(seq) == seq[Len(seq)]

Reverse(s) == [i \in 1..Len(s) |-> s[Len(s) + 1 - i]]

\* the children of p in the order the API lists them
RepliesOrder(w, p) ==
    LET asc == AscSeq({q \in 1..w.n : w.parent[q] = p})
    IN IF w.order = "asc" THEN asc ELSE Reverse(asc)

Hidden(w, q) == w.flaw.post = q /\ w.flaw.kind \in {"notFound", "blocked"}

\* a parent or reply slot of a ThreadViewPost: a nested view, or a
\* NotFoundPost / BlockedPost placeholder
Slot(w, q) ==
    IF Hidden(w, q)
    THEN [kind |-> w.flaw.kind, uri |-> NoUri, did |-> ""]
    ELSE [kind |-> "view", uri |-> UriOf(w, q), did |-> w.author[q]]

NoSlot == [kind |-> "none", uri |-> NoUri, did |-> ""]

\* ThreadViewPost with depth 1 and parent_height 1
ViewOf(w, p) ==
    [uri |-> UriOf(w, p),
     cid |-> CidOf(p),
     createdAt |-> RecordCreatedAt(w, p),
     did |-> w.author[p],
     handle |-> HandleOf(w.author[p]),
     serialisable |-> ~(w.flaw.post = p /\ w.flaw.kind = "badRecord"),
     parent |-> IF w.parent[p] = 0 THEN NoSlot ELSE Slot(w, w.parent[p]),
     replies |-> [i \in 1..Len(RepliesOrder(w, p)) |-> Slot(w, RepliesOrder(w, p)[i])]]

\* the service is asked before the handle is parsed
resolve_handle_asks_first(handle, outcome) ==
    IF outcome # <<"ok">> THEN Err(map_api_error(outcome))
    ELSE IF handle \notin ValidHandles THEN Err(Api(<<"invalid handle">>))
    ELSE Ok(DidOfHandle(handle))

(* --------------------------- the client ------------------------------- *)
resolve_handle(handle, outcome) ==
    IF handle \notin ValidHandles THEN Err(Api(<<"invalid handle">>))
    ELSE IF outcome # <<"ok">> THEN Err(map_api_error(outcome))
    ELSE Ok(DidOfHandle(handle))

fetch_post_thread_shallow(w, at_uri, outcome) ==
    IF outcome \in ApiErrors THEN Err(map_api_error(outcome))
    ELSE IF outcome = <<"unknown">> THEN Err(InvalidResponse)
    ELSE IF PostAt(w, at_uri) = 0 THEN Err(Api(<<"error", "NotFound">>))
    ELSE IF Hidden(w, PostAt(w, at_uri))
         THEN (IF w.flaw.kind = "notFound" THEN Err(NotFound) ELSE Err(Blocked))
    ELSE Ok(ViewOf(w, PostAt(w, at_uri)))

\* the author of the parent is not compared
get_parent_uri_any_author(view, author_did) ==
    IF view.parent.kind = "view" THEN Some(view.parent.uri) ELSE None

\* the parent is never followed
get_parent_uri_never(view, author_did) == None

get_parent_uri_if_same_author(view, author_did) ==
    IF view.parent.kind = "view" /\ view.parent.did = author_did
    THEN Some(view.parent.uri)
    ELSE None

\* the search ends at the first entry that is not a post
find_self_reply_stops_at_placeholder(view, author_did) ==
    LET hits == {i \in 1..Len(view.replies) :
                    /\ view.replies[i].kind = "view"
                    /\ view.replies[i].did = author_did
                    /\ \A j \in 1..i : view.replies[j].kind = "view"}
    IN IF hits = {} THEN None
       ELSE Some(view.replies[CHOOSE i \in hits : \A j \in hits : i <= j].uri)

\* the first reply that is a post, whoever wrote it
find_self_reply_any_author(view, author_did) ==
    LET hits == {i \in 1..Len(view.replies) : view.replies[i].kind = "view"}
    IN IF hits = {} THEN None
       ELSE Some(view.replies[CHOOSE i \in hits : \A j \in hits : i <= j].uri)

\* the last same-author reply instead of the first
find_self_reply_last(view, author_did) ==
    LET hits == {i \in 1..Len(view.replies) :
                    view.replies[i].kind = "view" /\ view.replies[i].did = author_did}
    IN IF hits = {} THEN None
       ELSE Some(view.replies[CHOOSE i \in hits : \A j \in hits : j <= i].uri)

find_self_reply(view, author_did) ==
    LET hits == {i \in 1..Len(view.replies) :
                    view.replies[i].kind = "view" /\ view.replies[i].did = author_did}
    IN IF hits = {} THEN None
       ELSE Some(view.replies[CHOOSE i \in hits : \A j \in hits : i <= j].uri)

extract_author(view) == Ok([did |-> view.did, handle |-> view.handle])

extract_post(view) ==
    IF view.serialisable
    THEN Ok([uri |-> view.uri, cid |-> view.cid,
             created_at |-> parse_created_at(view.createdAt)])
    ELSE Err(InvalidResponse)

\* the start post is taken for the root after one fetch
find_root_uri_one_fetch(w, current_uri, outcome) ==
    LET r == fetch_post_thread_shallow(w, current_uri, outcome)
    IN IF ~r.ok THEN [ret |-> TRUE, res |-> r, cur |-> current_uri]
       ELSE [ret |-> TRUE, res |-> Ok(current_uri), cur |-> current_uri]

\* a parent that is not older than its reply is not followed
find_root_uri_older_only(w, current_uri, outcome) ==
    LET r == fetch_post_thread_shallow(w, current_uri, outcome)
    IN IF ~r.ok THEN [ret |-> TRUE, res |-> r, cur |-> current_uri]
       ELSE LET par == get_parent_uri_if_same_author(r.v, r.v.did)
            IN IF par.some /\ par.v.rkey < current_uri.rkey
               THEN [ret |-> FALSE, res |-> Ok(current_uri), cur |-> par.v]
               ELSE [ret |-> TRUE, res |-> Ok(current_uri), cur |-> current_uri]

\* one iteration of the loop of find_root_uri_async
find_root_uri_async(w, current_uri, outcome) ==
    LET r == fetch_post_thread_shallow(w, current_uri, outcome)
    IN IF ~r.ok THEN [ret |-> TRUE, res |-> r, cur |-> current_uri]
       ELSE LET par == get_parent_uri_if_same_author(r.v, r.v.did)
            IN IF par.some
               THEN [ret |-> FALSE, res |-> Ok(current_uri), cur |-> par.v]
               ELSE [ret |-> TRUE, res |-> Ok(current_uri), cur |-> current_uri]

NoAuthor == [did |-> "", handle |-> ""]

NoThread == [posts |-> <<>>, author |-> NoAuthor]

\* StreamEvent, and the Err item of the stream
Header(author) == [kind |-> "Header", author |-> author, post |-> [uri |-> NoUri, cid |-> <<>>], err |-> [tag |-> "", msg |-> <<>>]]
Post(post) == [kind |-> "Post", author |-> NoAuthor, post |-> post, err |-> [tag |-> "", msg |-> <<>>]]
Done == [kind |-> "Done", author |-> NoAuthor, post |-> [uri |-> NoUri, cid |-> <<>>], err |-> [tag |-> "", msg |-> <<>>]]
ErrItem(e) == [kind |-> "Err", author |-> NoAuthor, post |-> [uri |-> NoUri, cid |-> <<>>], err |-> e]

(* ------------------------------ state --------------------------------- *)
VARIABLES
    chain,      \* the remote reply forest; never changes
    req,        \* the request: handle and post_id
    bpc,        \* get_thread_by_handle: where the call stands
    bcur,       \* ... at_uri / current_uri / root_uri
    bdid,       \* ... author_did
    bthread,    \* ... posts and author collected so far
    bresult,    \* ... the Result returned
    bfetches,   \* ... getPostThread calls issued
    berrs,      \* ... errors its calls raised
    spc,        \* get_thread_streaming: where the generator stands
    scur,       \* ... at_uri / root_uri / current_uri
    sdid,       \* ... author_did
    sview,      \* ... root_view
    events,     \* ... the items yielded so far
    sfetches,   \* ... getPostThread calls issued
    serrs,      \* ... errors its calls raised
    task,       \* the spawned producer task: running, waiting for a fetch, ended
    post_count, \* ... its post_count
    chan,       \* the mpsc channel between task and response body
    body,       \* the chunks the response body has delivered
    rxDropped,  \* the receiver was dropped (client gone)
    lateFetches, \* getPostThread calls issued after the receiver was dropped
    since_cid,  \* get_thread_updates: params.since_cid
    now,        \* ... what Utc::now() returned
    response,   \* ... the response it made
    prev,       \* the request before this one: its Thread and its response
    interval,   \* the poller: milliseconds from one poll to the next
    cursor,     \* ... the cid of the last post the page shows
    timer,      \* ... milliseconds until the pending timer is due, -1 for none
    elapsed,    \* ... milliseconds since the last poll, as far as it matters
    visible,    \* ... the page is visible
    auto,       \* ... automatic polling is on
    pstep,      \* ... its last poll, and the number of its polls modulo 2
    streak      \* ... polls without new posts since the interval was reset

bvars == <<bpc, bcur, bdid, bthread, bresult, bfetches, berrs>>
svars == <<spc, scur, sdid, sview, events, sfetches, serrs>>
hvars == <<task, post_count, chan>>
cvars == <<body, rxDropped>>
uvars == <<since_cid, now, response, prev>>
pvars == <<interval, cursor, timer, elapsed, visible, auto, pstep, streak>>
vars == <<chain, req, bvars, svars, hvars, cvars, lateFetches, uvars, pvars>>

NoView == [uri |-> NoUri, cid |-> <<>>, createdAt |-> [rfc3339 |-> FALSE, ms |-> 0],
           did |-> "", handle |-> "",
           serialisable |-> TRUE,
           parent |-> NoSlot, replies |-> <<>>]

\* no response made yet
NoResponse == [status |-> 0, stale |-> "", last_cid |-> <<>>, post_count |-> 0, body |-> <<>>]

NoPrev == [some |-> FALSE, thread |-> NoThread, response |-> NoResponse]

\* the poller has done nothing yet
NoStep == [cause |-> "", result |-> "", count |-> 0]

\* no page is polling
NoPoller ==
    /\ interval = 0
    /\ cursor = <<>>
    /\ timer = -1
    /\ elapsed = 0
    /\ visible = TRUE
    /\ auto = FALSE
    /\ pstep = NoStep
    /\ streak = 0

Init ==
    /\ chain \in Worlds
    /\ \E p \in 1..chain.n :
         req \in {[handle |-> h, post_id |-> p] : h \in {HandleOf(chain.author[p]), BadHandle}}
    /\ bpc = "resolve"
    /\ bcur = NoUri
    /\ bdid = ""
    /\ bthread = NoThread
    /\ bresult = [ok |-> FALSE, err |-> [tag |-> "", msg |-> <<>>], thread |-> NoThread]
    /\ bfetches = 0
    /\ berrs = <<>>
    /\ spc = "resolve"
    /\ scur = None
    /\ sdid = ""
    /\ sview = NoView
    /\ events = <<>>
    /\ sfetches = 0
    /\ serrs = <<>>
    /\ task = "running"
    /\ post_count = 0
    /\ chan = <<>>
    /\ body = <<>>
    /\ rxDropped = FALSE
    /\ lateFetches = 0
    /\ since_cid = <<>>
    /\ now = 0
    /\ response = NoResponse
    /\ prev = NoPrev
    /\ NoPoller

(* ------------------ get_thread_by_handle / get_thread ----------------- *)
\* Requests share no state, so the two walks of one behaviour run one after
\* the other: the buffered call is made either instead of the streamed
\* response or once that response has been delivered in full.
NoErr == [tag |-> "", msg |-> <<>>]

\* an error ends the walk, and what was collected is returned as a Thread
BFailPartial(e) ==
    /\ bpc' = "done"
    /\ bresult' = [ok |-> TRUE, err |-> NoErr, thread |-> bthread]
    /\ berrs' = Append(berrs, e)

\* every error is returned as a generic API error
BFailAsApi(e) ==
    /\ bpc' = "failed"
    /\ bresult' = [ok |-> FALSE, err |-> Api(<<"fetch failed">>), thread |-> NoThread]
    /\ berrs' = Append(berrs, e)

\* `?`: the call returns Err(e), and the posts collected are dropped
BFail(e) ==
    /\ bpc' = "failed"
    /\ bresult' = [ok |-> FALSE, err |-> e, thread |-> NoThread]
    /\ berrs' = Append(berrs, e)

BReturn(thread) ==
    /\ bpc' = "done"
    /\ bresult' = [ok |-> TRUE, err |-> NoErr, thread |-> thread]
    /\ berrs' = berrs

BOther == UNCHANGED <<chain, req, svars, hvars, cvars, lateFetches, uvars, pvars>>

BResolve(outcome) ==
    /\ bpc = "resolve"
    /\ ~rxDropped
    /\ spc \in {"resolve", "done"}
    /\ spc = "done" => chan = <<>>
    /\ LET r == resolve_handle(req.handle, outcome)
       IN IF r.ok
          THEN /\ bcur' = AtUri(r.v, req.post_id)
               /\ bpc' = "locate"
               /\ UNCHANGED <<bresult, berrs>>
          ELSE BFail(r.v) /\ UNCHANGED bcur
    /\ UNCHANGED <<bdid, bthread, bfetches>>
    /\ BOther

BLocate(outcome) ==
    /\ bpc = "locate"
    /\ LET s == find_root_uri_async(chain, bcur, outcome)
       IN /\ bcur' = s.cur
          /\ IF ~s.res.ok THEN BFail(s.res.v)
             ELSE /\ bpc' = IF s.ret THEN "root" ELSE "locate"
                  /\ UNCHANGED <<bresult, berrs>>
    /\ bfetches' = bfetches + 1
    /\ UNCHANGED <<bdid, bthread>>
    /\ BOther

\* one fetch of the forward walk and what follows it up to the next fetch
BStep(outcome, first) ==
    LET r == fetch_post_thread_shallow(chain, bcur, outcome)
    IN /\ bfetches' = bfetches + 1
       /\ IF ~r.ok THEN BFail(r.v) /\ UNCHANGED <<bcur, bdid, bthread>>
          ELSE LET author_did == IF first THEN r.v.did ELSE bdid
                   author == IF first THEN extract_author(r.v).v ELSE bthread.author
                   post == extract_post(r.v)
                   next == find_self_reply(r.v, author_did)
               IN IF ~post.ok THEN BFail(post.v) /\ UNCHANGED <<bcur, bdid, bthread>>
                  ELSE /\ bdid' = author_did
                       /\ bthread' = [posts |-> Append(bthread.posts, post.v), author |-> author]
                       /\ IF next.some
                          THEN /\ bcur' = next.v
                               /\ bpc' = "walk"
                               /\ UNCHANGED <<bresult, berrs>>
                          ELSE /\ BReturn(bthread')
                               /\ UNCHANGED bcur

BRoot(outcome) ==
    /\ bpc = "root"
    /\ BStep(outcome, TRUE)
    /\ BOther

BWalk(outcome) ==
    /\ bpc = "walk"
    /\ BStep(outcome, FALSE)
    /\ BOther

(* -------- get_thread_streaming (client) inside the handler's task ----- *)
\* the chunk the task builds from a stream item
ChunkOf(event, count) ==
    IF event.kind = "Header" THEN [kind |-> "head", uri |-> NoUri]
    ELSE IF event.kind = "Post"
         THEN [kind |-> IF count + 1 = 1 THEN "firstPost" ELSE "post", uri |-> event.post.uri]
    ELSE IF event.kind = "Done" THEN [kind |-> "footer", uri |-> NoUri]
    ELSE [kind |-> "error", uri |-> NoUri]

\* the stream ends once it has yielded Done or an error
StreamEnds(event) == event.kind \in {"Done", "Err"}

\* the first post and the loading indicator are sent as two chunks
ForwardSplitsFirstPost(event) ==
    /\ Len(chan) < ChannelCapacity - 1
    /\ events' = Append(events, event)
    /\ post_count' = IF event.kind = "Post" THEN post_count + 1 ELSE post_count
    /\ IF rxDropped
       THEN chan' = chan /\ task' = "ended"
       ELSE /\ chan' = IF event.kind = "Post" /\ post_count = 0
                       THEN chan \o <<[kind |-> "post", uri |-> event.post.uri],
                                      [kind |-> "indicator", uri |-> NoUri]>>
                       ELSE Append(chan, ChunkOf(event, post_count))
            /\ task' = IF StreamEnds(event) THEN "ended" ELSE "running"

\* a failed send is ignored and the loop goes on
ForwardIgnoresSendError(event) ==
    /\ Len(chan) < ChannelCapacity
    /\ events' = Append(events, event)
    /\ post_count' = IF event.kind = "Post" THEN post_count + 1 ELSE post_count
    /\ chan' = IF rxDropped THEN chan ELSE Append(chan, ChunkOf(event, post_count))
    /\ task' = IF StreamEnds(event) THEN "ended" ELSE "running"

\* one turn of `while let Some(event) = stream.next().await`: the item is
\* turned into a chunk and sent; a failed send breaks the loop, and after the
\* stream's last item next() returns None. A response has at most
\* MaxChain + 2 chunks, fewer than the channel holds, so send never waits
Forward(event) ==
    /\ Len(chan) < ChannelCapacity
    /\ events' = Append(events, event)
    /\ post_count' = IF event.kind = "Post" THEN post_count + 1 ELSE post_count
    /\ IF rxDropped
       THEN chan' = chan /\ task' = "ended"
       ELSE /\ chan' = Append(chan, ChunkOf(event, post_count))
            /\ task' = IF StreamEnds(event) THEN "ended" ELSE "running"

\* the error is followed by a Done
SFailThenDone(e) ==
    /\ spc' = "failed"
    /\ serrs' = Append(serrs, e)
    /\ Len(chan) < ChannelCapacity
    /\ events' = events \o <<ErrItem(e), Done>>
    /\ post_count' = post_count
    /\ task' = "ended"
    /\ chan' = IF rxDropped THEN chan
               ELSE chan \o <<ChunkOf(ErrItem(e), post_count), ChunkOf(Done, post_count)>>

\* the error is yielded but the generator stays where it is and goes on
SFailStay(e) ==
    /\ spc' = spc
    /\ serrs' = Append(serrs, e)
    /\ Len(chan) < ChannelCapacity
    /\ events' = Append(events, ErrItem(e))
    /\ post_count' = post_count
    /\ task' = IF rxDropped THEN "ended" ELSE "running"
    /\ chan' = IF rxDropped THEN chan ELSE Append(chan, ChunkOf(ErrItem(e), post_count))

\* an error before the Header is preceded by a Header without author
SFailAfterHeader(e) ==
    /\ spc' = "failed"
    /\ serrs' = Append(serrs, e)
    /\ Len(chan) < ChannelCapacity
    /\ events' = IF events = <<>> THEN <<Header(NoAuthor), ErrItem(e)>>
                 ELSE Append(events, ErrItem(e))
    /\ post_count' = post_count
    /\ task' = "ended"
    /\ chan' = IF rxDropped THEN chan
               ELSE IF events = <<>>
                    THEN chan \o <<ChunkOf(Header(NoAuthor), post_count),
                                   ChunkOf(ErrItem(e), post_count)>>
                    ELSE Append(chan, ChunkOf(ErrItem(e), post_count))

\* `?` inside try_stream!: the stream yields the error and ends
SFail(e) ==
    /\ spc' = "failed"
    /\ serrs' = Append(serrs, e)
    /\ Forward(ErrItem(e))

\* a getPostThread request goes out: it is late when the receiver is gone
\* by now
SFetch ==
    /\ sfetches' = sfetches + 1
    /\ lateFetches' = IF rxDropped THEN lateFetches + 1 ELSE lateFetches

SOther == UNCHANGED <<chain, req, bvars, cvars, uvars, pvars>>

\* fetch_post_thread_shallow issues its request and the task is suspended
\* at the `.await` until the answer is there
SIssue ==
    /\ spc \in {"locate", "root", "walk"} /\ task = "running"
    /\ spc = "walk" => scur.some
    /\ task' = "waiting"
    /\ SFetch
    /\ UNCHANGED <<spc, scur, sdid, sview, events, serrs, post_count, chan>>
    /\ SOther

SResolve(outcome) ==
    /\ spc = "resolve" /\ task = "running"
    /\ bpc = "resolve"
    /\ LET r == resolve_handle(req.handle, outcome)
       IN IF r.ok
          THEN /\ scur' = Some(AtUri(r.v, req.post_id))
               /\ spc' = "locate"
               /\ UNCHANGED <<events, serrs, hvars>>
          ELSE SFail(r.v) /\ UNCHANGED scur
    /\ UNCHANGED <<sdid, sview, sfetches, lateFetches>>
    /\ SOther

\* the answer to a request of find_root_uri_async is there
SLocate(outcome) ==
    /\ spc = "locate" /\ task = "waiting"
    /\ LET s == find_root_uri_async(chain, scur.v, outcome)
       IN /\ scur' = Some(s.cur)
          /\ IF ~s.res.ok THEN SFail(s.res.v)
             ELSE /\ spc' = IF s.ret THEN "root" ELSE "locate"
                  /\ task' = "running"
                  /\ UNCHANGED <<events, serrs, post_count, chan>>
    /\ UNCHANGED <<sdid, sview, sfetches, lateFetches>>
    /\ SOther

\* the root is fetched again and the Header is yielded
SRoot(outcome) ==
    /\ spc = "root" /\ task = "waiting"
    /\ LET r == fetch_post_thread_shallow(chain, scur.v, outcome)
       IN IF ~r.ok THEN SFail(r.v) /\ UNCHANGED <<sdid, sview>>
          ELSE /\ sview' = r.v
               /\ sdid' = extract_author(r.v).v.did
               /\ spc' = "rootPost"
               /\ serrs' = serrs
               /\ Forward(Header(extract_author(r.v).v))
    /\ UNCHANGED <<scur, sfetches, lateFetches>>
    /\ SOther

\* the root post is not yielded
SRootPostSkip ==
    /\ spc = "rootPost" /\ task = "running"
    /\ scur' = find_self_reply(sview, sdid)
    /\ spc' = "walk"
    /\ UNCHANGED <<sdid, sview, sfetches, lateFetches, serrs, events, hvars>>
    /\ SOther

\* the generator is resumed after the Header and yields the root post
SRootPost ==
    /\ spc = "rootPost" /\ task = "running"
    /\ LET post == extract_post(sview)
       IN IF ~post.ok THEN SFail(post.v) /\ UNCHANGED scur
          ELSE /\ scur' = find_self_reply(sview, sdid)
               /\ spc' = "walk"
               /\ serrs' = serrs
               /\ Forward(Post(post.v))
    /\ UNCHANGED <<sdid, sview, sfetches, lateFetches>>
    /\ SOther

\* one turn of `while let Some(uri) = current_uri`
SWalk(outcome) ==
    /\ spc = "walk" /\ task = "waiting"
    /\ scur.some
    /\ LET r == fetch_post_thread_shallow(chain, scur.v, outcome)
           post == extract_post(r.v)
       IN IF ~r.ok THEN SFail(r.v) /\ UNCHANGED scur
          ELSE IF ~post.ok THEN SFail(post.v) /\ UNCHANGED scur
          ELSE /\ scur' = find_self_reply(r.v, sdid)
               /\ spc' = "walk"
               /\ serrs' = serrs
               /\ Forward(Post(post.v))
    /\ UNCHANGED <<sdid, sview, sfetches, lateFetches>>
    /\ SOther

\* the stream ends without yielding Done
SDoneMissing ==
    /\ spc = "walk" /\ task = "running"
    /\ ~scur.some
    /\ spc' = "done"
    /\ task' = "ended"
    /\ UNCHANGED <<scur, sdid, sview, events, sfetches, serrs, lateFetches, post_count, chan>>
    /\ SOther

\* the loop is left and Done is yielded
SDone ==
    /\ spc = "walk" /\ task = "running"
    /\ ~scur.some
    /\ spc' = "done"
    /\ Forward(Done)
    /\ UNCHANGED <<scur, sdid, sview, sfetches, serrs, lateFetches>>
    /\ SOther

(* ------------------------- the response body -------------------------- *)
\* the body stream pulls the next chunk from the receiver
Recv ==
    /\ ~rxDropped
    /\ chan # <<>>
    /\ body' = Append(body, Head(chan))
    /\ chan' = Tail(chan)
    /\ UNCHANGED <<chain, req, bvars, svars, task, post_count, rxDropped, lateFetches, uvars, pvars>>

\* the client goes away: the body and with it the receiver are dropped
Disconnect ==
    /\ ~rxDropped
    /\ bpc = "resolve"
    /\ ~(task = "ended" /\ chan = <<>>)
    /\ rxDropped' = TRUE
    /\ chan' = <<>>
    /\ UNCHANGED <<chain, req, bvars, svars, task, post_count, body, lateFetches, uvars, pvars>>

Next ==
    \/ \E o \in ResolveOutcomes : BResolve(o)
    \/ \E o \in FetchOutcomes : BLocate(o)
    \/ \E o \in FetchOutcomes : BRoot(o)
    \/ \E o \in FetchOutcomes : BWalk(o)
    \/ \E o \in ResolveOutcomes : SResolve(o)
    \/ SIssue
    \/ \E o \in FetchOutcomes : SLocate(o)
    \/ \E o \in FetchOutcomes : SRoot(o)
    \/ SRootPost
    \/ \E o \in FetchOutcomes : SWalk(o)
    \/ SDone
    \/ Recv
    \/ Disconnect

Spec == Init /\ [][Next]_vars

(* ===================== GET /api/thread/updates ======================== *)
\* Config::poll_disable_after, in seconds
poll_disable_after == 1800

\* TimeDelta::num_seconds of a difference in milliseconds: whole seconds,
\* rounded toward zero
num_seconds(ms) == IF ms >= 0 THEN ms \div 1000 ELSE -((-ms) \div 1000)

\* the instants Utc::now() is read at by a poll: one millisecond before
\* and exactly poll_disable_after after the newest post was written
PollNowChoices(w) ==
    {CreatedAt(w.n) + d : d \in {1000 * poll_disable_after - 1, 1000 * poll_disable_after}}

\* the instants Utc::now() is read at: as the newest post of the forest is
\* written, and one millisecond before and exactly poll_disable_after later
NowChoices(w) ==
    {CreatedAt(w.n) + d : d \in {0, 1000 * poll_disable_after - 1, 1000 * poll_disable_after}}

\* the since_cid values of a request: the cid of a post, or of none
SinceCids(w) == {CidOf(p) : p \in 0..w.n}

\* the Display text of a ClientError
to_string(e) ==
    IF e.tag = "NotFound" THEN <<"post not found">>
    ELSE IF e.tag = "Blocked" THEN <<"post is blocked">>
    ELSE IF e.tag = "RateLimited" THEN <<"rate limited">>
    ELSE IF e.tag = "InvalidResponse" THEN <<"invalid response structure">>
    ELSE <<"API error: ">> \o e.msg

\* ClientError -> AppError (the API is reached, so there is no Http error)
map_client_error(e) ==
    IF e.tag = "NotFound" THEN [tag |-> "NotFound", msg |-> <<"post not found or deleted">>]
    ELSE IF e.tag = "Blocked" THEN [tag |-> "NotFound", msg |-> <<"post is blocked">>]
    ELSE IF e.tag = "RateLimited" THEN [tag |-> "RateLimited", msg |-> <<>>]
    ELSE [tag |-> "Internal", msg |-> to_string(e)]

\* AppError -> the error page: its status, title and message
into_response(app) ==
    IF app.tag = "BadRequest"
    THEN [status |-> 400, title |-> "Bad Request", message |-> app.msg]
    ELSE IF app.tag = "NotFound"
    THEN [status |-> 404, title |-> "Not Found", message |-> app.msg]
    ELSE IF app.tag = "RateLimited"
    THEN [status |-> 429, title |-> "Too Many Requests",
          message |-> <<"Rate limit exceeded. Please try again later.">>]
    ELSE IF app.tag = "Internal"
    THEN [status |-> 500, title |-> "Internal Server Error",
          message |-> <<"An unexpected error occurred.">>]
    ELSE [status |-> 503, title |-> "Service Unavailable", message |-> app.msg]

\* the fragment that ends a streamed page after an error
streaming_error(message) == [kind |-> "error", message |-> message]

\* position() finds the last post but one wherever the cid is the last post's
position_before_last(posts, cid) ==
    LET hits == {i \in 1..Len(posts) : posts[i].cid = cid}
    IN IF hits = {} THEN 0
       ELSE LET first == CHOOSE i \in hits : \A j \in hits : i <= j
            IN IF first = Len(posts) /\ first > 1 THEN first - 1 ELSE first

\* posts.iter().position(|p| p.cid == since_cid): 0 for None, else idx + 1
position(posts, cid) ==
    LET hits == {i \in 1..Len(posts) : posts[i].cid = cid}
    IN IF hits = {} THEN 0 ELSE CHOOSE i \in hits : \A j \in hits : i <= j

\* a thread is stale from the second after the threshold on
is_stale_late(last_post_time, at) ==
    num_seconds(at - last_post_time) > poll_disable_after

is_stale(last_post_time, at) ==
    num_seconds(at - last_post_time) >= poll_disable_after

\* X-Last-CID names the first of the new posts
updates_response_first_cid(result, cid, at) ==
    IF ~result.ok
    THEN [status |-> into_response(map_client_error(result.err)).status, stale |-> "", last_cid |-> <<>>,
          post_count |-> 0, body |-> <<>>]
    ELSE LET posts == result.thread.posts
             since_idx == position(posts, cid)
             fresh == IF since_idx # 0 THEN SubSeq(posts, since_idx + 1, Len(posts)) ELSE posts
         IN IF fresh = <<>>
            THEN [status |-> 204,
                  stale |-> IF posts = <<>> \/ is_stale(Last(posts).created_at, at)
                            THEN "true" ELSE "false",
                  last_cid |-> <<>>, post_count |-> 0, body |-> <<>>]
            ELSE [status |-> 200, stale |-> "false", last_cid |-> Head(fresh).cid,
                  post_count |-> Len(fresh),
                  body |-> [i \in 1..Len(fresh) |-> fresh[i].cid]]

\* the posts from the since_cid post on, that post included
new_posts_inclusive(posts, cid) ==
    LET since_idx == position(posts, cid)
    IN IF since_idx # 0 THEN SubSeq(posts, since_idx, Len(posts)) ELSE posts

\* a since_cid that matches no post gives no new posts
new_posts_unknown_empty(posts, cid) ==
    LET since_idx == position(posts, cid)
    IN IF since_idx # 0 THEN SubSeq(posts, since_idx + 1, Len(posts)) ELSE <<>>

\* Some(idx) => skip(idx + 1), None => every post
new_posts(posts, cid) ==
    LET since_idx == position(posts, cid)
    IN IF since_idx # 0 THEN SubSeq(posts, since_idx + 1, Len(posts)) ELSE posts

\* the response get_thread_updates makes from what get_thread_by_handle
\* returned, with Utc::now() read as `at`
updates_response(result, cid, at) ==
    IF ~result.ok
    THEN [status |-> into_response(map_client_error(result.err)).status, stale |-> "", last_cid |-> <<>>,
          post_count |-> 0, body |-> <<>>]
    ELSE LET posts == result.thread.posts
             fresh == new_posts(posts, cid)
         IN IF fresh = <<>>
            THEN [status |-> 204,
                  stale |-> IF posts = <<>> \/ is_stale(Last(posts).created_at, at)
                            THEN "true" ELSE "false",
                  last_cid |-> <<>>, post_count |-> 0, body |-> <<>>]
            ELSE [status |-> 200, stale |-> "false", last_cid |-> Last(fresh).cid,
                  post_count |-> Len(fresh),
                  body |-> [i \in 1..Len(fresh) |-> fresh[i].cid]]

\* get_thread_by_handle is entered: its locals are fresh, the client keeps
\* nothing from one call to the next
BStart ==
    /\ bpc' = "resolve"
    /\ bcur' = NoUri
    /\ bdid' = ""
    /\ bthread' = NoThread
    /\ bresult' = [ok |-> FALSE, err |-> NoErr, thread |-> NoThread]
    /\ bfetches' = 0
    /\ berrs' = <<>>

UOther == UNCHANGED <<chain, svars, hvars, cvars, lateFetches, pvars>>

\* get_thread_by_handle has returned: the rest of get_thread_updates
UpdatesRespond(at) ==
    /\ bpc \in {"done", "failed"}
    /\ response = NoResponse
    /\ at \in NowChoices(chain)
    /\ at >= now
    /\ now' = at
    /\ response' = updates_response(bresult, since_cid, at)
    /\ UNCHANGED <<req, bvars, since_cid, prev>>
    /\ UOther

\* the page asks again, for the same thread: with the X-Last-CID of the
\* response when it brought posts, else with the since_cid it sent before
UpdatesRequest ==
    /\ response # NoResponse
    /\ ~prev.some
    /\ prev' = [some |-> TRUE, thread |-> bresult.thread, response |-> response]
    /\ since_cid' = IF response.status = 200 THEN response.last_cid ELSE since_cid
    /\ response' = NoResponse
    /\ BStart
    /\ UNCHANGED <<req, now>>
    /\ UOther

\* a first request for any post of the forest, with any since_cid
InitUpdates ==
    /\ chain \in UpdateWorlds
    /\ \E p \in 1..chain.n :
         req \in {[handle |-> h, post_id |-> p] : h \in {HandleOf(chain.author[p]), BadHandle}}
    /\ since_cid \in SinceCids(chain)
    /\ bpc = "resolve"
    /\ bcur = NoUri
    /\ bdid = ""
    /\ bthread = NoThread
    /\ bresult = [ok |-> FALSE, err |-> NoErr, thread |-> NoThread]
    /\ bfetches = 0
    /\ berrs = <<>>
    /\ spc = "resolve"
    /\ scur = None
    /\ sdid = ""
    /\ sview = NoView
    /\ events = <<>>
    /\ sfetches = 0
    /\ serrs = <<>>
    /\ task = "running"
    /\ post_count = 0
    /\ chan = <<>>
    /\ body = <<>>
    /\ rxDropped = FALSE
    /\ lateFetches = 0
    /\ now = 0
    /\ response = NoResponse
    /\ prev = NoPrev
    /\ NoPoller

NextUpdates ==
    \/ \E o \in ResolveOutcomes : BResolve(o)
    \/ \E o \in FetchOutcomes : BLocate(o)
    \/ \E o \in FetchOutcomes : BRoot(o)
    \/ \E o \in FetchOutcomes : BWalk(o)
    \/ \E at \in NowChoices(chain) : UpdatesRespond(at)
    \/ UpdatesRequest

SpecUpdates == InitUpdates /\ [][NextUpdates]_vars

(* ========================= the update poller ========================== *)
\* The page's poller is driven by the PollingConfig the streaming handler
\* puts into the footer; its scheduling follows the design of the Update
\* Poller protocol. Time is counted in milliseconds.

\* Config::poll_initial_interval and Config::poll_max_interval, in seconds
poll_initial_interval == 30

poll_max_interval == 120

\* the longest self-reply chain the polled thread grows to
MaxThread == 3

\* the poller is looked at every 15 s: a timer that runs out in between is
\* due at the next look
TickMs == 15000

Min(a, b) == IF a <= b THEN a ELSE b

InitialMs == 1000 * poll_initial_interval

MaxMs == 1000 * poll_max_interval

\* elapsed time is only ever compared with an interval, so it is counted up
\* to one step beyond the longest interval
ElapsedCap == MaxMs + TickMs

RECURSIVE find_root_uri(_, _)
\* find_root_uri_async when every fetch answers
find_root_uri(w, at_uri) ==
    LET s == find_root_uri_async(w, at_uri, <<"ok">>)
    IN IF s.ret THEN s.res ELSE find_root_uri(w, s.cur)

RECURSIVE collect_posts(_, _, _)
\* the loop of get_thread from current_uri on, when every fetch answers
collect_posts(w, current_uri, author_did) ==
    LET r == fetch_post_thread_shallow(w, current_uri, <<"ok">>)
    IN IF ~r.ok THEN r
       ELSE LET post == extract_post(r.v)
                next == find_self_reply(r.v, author_did)
            IN IF ~post.ok THEN post
               ELSE IF ~next.some THEN Ok(<<post.v>>)
               ELSE LET rest == collect_posts(w, next.v, author_did)
                    IN IF ~rest.ok THEN rest ELSE Ok(<<post.v>> \o rest.v)

\* get_thread_by_handle as one step: `outcome` is what resolveHandle comes
\* back with, every getPostThread answers
get_thread_by_handle(w, handle, post_id, outcome) ==
    LET did == resolve_handle(handle, outcome)
        root_uri == find_root_uri(w, AtUri(did.v, post_id))
        root_view == fetch_post_thread_shallow(w, root_uri.v, <<"ok">>)
        posts == collect_posts(w, root_uri.v, root_view.v.did)
        failed(e) == [ok |-> FALSE, err |-> e, thread |-> NoThread]
    IN IF ~did.ok THEN failed(did.v)
       ELSE IF ~root_uri.ok THEN failed(root_uri.v)
       ELSE IF ~root_view.ok THEN failed(root_view.v)
       ELSE IF ~posts.ok THEN failed(posts.v)
       ELSE [ok |-> TRUE, err |-> NoErr,
             thread |-> [posts |-> posts.v, author |-> extract_author(root_view.v).v]]

\* what a poll request can meet: an answer from the server, which may have
\* been rate limited by the API, or no answer at all
PollOutcomes == {<<"ok">>, Status429, <<"transport">>}

\* the answer to a poll with since_cid = cid, NoResponse when none came
poll_response(w, r, cid, at, outcome) ==
    IF outcome = <<"transport">> THEN NoResponse
    ELSE updates_response(get_thread_by_handle(w, r.handle, r.post_id, outcome), cid, at)

\* how the poller reads a response
poll_result(resp) ==
    IF resp.status = 200 THEN "NewPosts"
    ELSE IF resp.status = 204 THEN (IF resp.stale = "true" THEN "Stale" ELSE "NoChange")
    ELSE "Error"

\* the interval is doubled when no new posts were found
backoff_no_change_double(current) == Min(2 * current, MaxMs)

\* the interval grows without a maximum
backoff_no_change_uncapped(current) == (3 * current) \div 2

\* NoChange: the interval times 1.5, up to the maximum
backoff_no_change(current) == Min((3 * current) \div 2, MaxMs)

\* a failed poll leaves the interval as it is
backoff_error_none(current) == current

\* transport error: the interval times 2, up to the same maximum
backoff_error(current) == Min(2 * current, MaxMs)

\* the interval after a poll
next_interval(current, result) ==
    IF result = "NewPosts" THEN InitialMs
    ELSE IF result = "NoChange" THEN backoff_no_change(current)
    ELSE IF result = "Error" THEN backoff_error(current)
    ELSE current

\* the cursor follows every response that names a cid or not
next_cursor_always(current, resp) == resp.last_cid

\* NewPosts advances the cursor to the X-Last-CID of the response
next_cursor(current, resp) ==
    IF poll_result(resp) = "NewPosts" THEN resp.last_cid ELSE current

\* the count of consecutive polls that found nothing new, starting from a
\* reset interval; -1 once a failed poll has changed the interval
next_streak(current, result) ==
    IF result = "NewPosts" THEN 0
    ELSE IF result = "Error" THEN -1
    ELSE IF result = "NoChange" /\ current >= 0 THEN Min(current + 1, 5)
    ELSE current

\* a stale result is treated like NoChange
poll_ignores_stale(cause, outcome, at) ==
    /\ at >= now
    /\ now' = at
    /\ response' = poll_response(chain, req, cursor, at, outcome)
    /\ LET result == poll_result(response')
       IN /\ interval' = next_interval(interval, result)
          /\ cursor' = next_cursor(cursor, response')
          /\ auto' = TRUE
          /\ timer' = interval'
          /\ elapsed' = 0
          /\ streak' = next_streak(streak, result)
          /\ pstep' = [cause |-> cause, result |-> result, count |-> (pstep.count + 1) % 2]

\* a failed poll ends automatic polling
poll_fatal_error(cause, outcome, at) ==
    /\ at >= now
    /\ now' = at
    /\ response' = poll_response(chain, req, cursor, at, outcome)
    /\ LET result == poll_result(response')
       IN /\ interval' = next_interval(interval, result)
          /\ cursor' = next_cursor(cursor, response')
          /\ auto' = (result \notin {"Stale", "Error"})
          /\ timer' = IF auto' THEN interval' ELSE -1
          /\ elapsed' = 0
          /\ streak' = next_streak(streak, result)
          /\ pstep' = [cause |-> cause, result |-> result, count |-> (pstep.count + 1) % 2]

\* one poll: the request is sent with the cursor, the response is read, and
\* the next poll is scheduled one interval from now unless the thread is
\* stale. The round trip is short against the intervals and taken as one step
poll(cause, outcome, at) ==
    /\ at >= now
    /\ now' = at
    /\ response' = poll_response(chain, req, cursor, at, outcome)
    /\ LET result == poll_result(response')
       IN /\ interval' = next_interval(interval, result)
          /\ cursor' = next_cursor(cursor, response')
          /\ auto' = (result # "Stale")
          /\ timer' = IF auto' THEN interval' ELSE -1
          /\ elapsed' = 0
          /\ streak' = next_streak(streak, result)
          /\ pstep' = [cause |-> cause, result |-> result, count |-> (pstep.count + 1) % 2]

POther == UNCHANGED <<req, bvars, svars, hvars, cvars, lateFetches, prev>>

\* the pending timer is due
TimerFires(outcome, at) ==
    /\ timer = 0
    /\ visible
    /\ auto
    /\ poll("timer", outcome, at)
    /\ UNCHANGED <<chain, visible, since_cid>>
    /\ POther

\* the refresh does not touch the pending timer
refresh_keeps_timer(outcome, at) ==
    /\ visible
    /\ at >= now
    /\ now' = at
    /\ response' = poll_response(chain, req, cursor, at, outcome)
    /\ LET result == poll_result(response')
       IN /\ interval' = next_interval(interval, result)
          /\ cursor' = next_cursor(cursor, response')
          /\ auto' = (result # "Stale")
          /\ timer' = IF ~auto' THEN -1 ELSE IF timer >= 0 THEN timer ELSE interval'
          /\ elapsed' = 0
          /\ streak' = next_streak(streak, result)
          /\ pstep' = [cause |-> "manual", result |-> result, count |-> (pstep.count + 1) % 2]
    /\ UNCHANGED <<chain, visible, since_cid>>
    /\ POther

\* the reader asks for a refresh: one poll now, whatever the timer says and
\* also when automatic polling is off; the pending timer is replaced
ManualRefresh(outcome, at) ==
    /\ visible
    /\ poll("manual", outcome, at)
    /\ UNCHANGED <<chain, visible, since_cid>>
    /\ POther

\* the page is hidden: the pending timer is dropped
Hide ==
    /\ visible
    /\ visible' = FALSE
    /\ timer' = -1
    /\ pstep' = pstep
    /\ UNCHANGED <<chain, interval, cursor, elapsed, auto, streak, uvars>>
    /\ POther

\* the page becoming visible always polls at once
show_always_polls(outcome, at) ==
    /\ ~visible
    /\ visible' = TRUE
    /\ IF auto
       THEN poll("visible", outcome, at)
       ELSE /\ pstep' = pstep
            /\ UNCHANGED <<interval, cursor, timer, elapsed, auto, streak, now, response>>
    /\ UNCHANGED <<chain, since_cid>>
    /\ POther

\* the page is visible again: with automatic polling on it polls at once
\* when more than the interval has passed since the last poll, and else
\* waits for the rest of the interval
Show(outcome, at) ==
    /\ ~visible
    /\ visible' = TRUE
    /\ IF auto /\ elapsed > interval
       THEN poll("visible", outcome, at)
       ELSE /\ timer' = IF auto THEN interval - elapsed ELSE -1
            /\ pstep' = pstep
            /\ outcome = <<"ok">>
            /\ at = now
            /\ UNCHANGED <<interval, cursor, elapsed, auto, streak, now, response>>
    /\ UNCHANGED <<chain, since_cid>>
    /\ POther

\* time passes
Tick ==
    /\ elapsed' = Min(elapsed + TickMs, ElapsedCap)
    /\ timer' = IF timer < 0 THEN -1 ELSE IF timer > TickMs THEN timer - TickMs ELSE 0
    /\ pstep' = pstep
    /\ elapsed < ElapsedCap \/ timer > 0
    /\ UNCHANGED <<chain, interval, cursor, visible, auto, streak, uvars>>
    /\ POther

\* the author adds a reply to the end of the thread
Grow ==
    /\ chain.n < MaxThread
    /\ chain' = LinearChain(chain.n + 1, FALSE)
    /\ pstep' = pstep
    /\ UNCHANGED <<interval, cursor, timer, elapsed, visible, auto, streak, uvars>>
    /\ POther

\* the streamed page has been delivered with its footer: PollingConfig
\* carries the cid of the last post, the intervals and whether the thread
\* was already stale, and the poller starts from it
InitPoller ==
    /\ \E len \in 1..(MaxThread - 1) : chain = LinearChain(len, FALSE)
    /\ req = [handle |-> HandleOf("did:a"), post_id |-> 1]
    /\ bpc = "resolve"
    /\ bcur = NoUri
    /\ bdid = ""
    /\ bthread = NoThread
    /\ bresult = [ok |-> FALSE, err |-> NoErr, thread |-> NoThread]
    /\ bfetches = 0
    /\ berrs = <<>>
    /\ spc = "resolve"
    /\ scur = None
    /\ sdid = ""
    /\ sview = NoView
    /\ events = <<>>
    /\ sfetches = 0
    /\ serrs = <<>>
    /\ task = "running"
    /\ post_count = 0
    /\ chan = <<>>
    /\ body = <<>>
    /\ rxDropped = FALSE
    /\ lateFetches = 0
    /\ since_cid = <<>>
    /\ now \in PollNowChoices(chain)
    /\ response = NoResponse
    /\ prev = NoPrev
    /\ interval = InitialMs
    /\ cursor = CidOf(chain.n)
    /\ auto = (num_seconds(now - CreatedAt(chain.n)) < poll_disable_after)
    /\ timer = IF auto THEN interval ELSE -1
    /\ elapsed = 0
    /\ visible = TRUE
    /\ pstep = NoStep
    /\ streak = 0

NextPoller ==
    \/ \E o \in PollOutcomes, at \in PollNowChoices(chain) : TimerFires(o, at)
    \/ \E o \in PollOutcomes, at \in PollNowChoices(chain) : ManualRefresh(o, at)
    \/ \E o \in PollOutcomes, at \in PollNowChoices(chain) \cup {now} : Show(o, at)
    \/ Hide
    \/ Tick
    \/ Grow

SpecPoller == InitPoller /\ [][NextPoller]_vars

(* ======================== the entry points =========================== *)
\* A URL as Url::parse sees it: its host and its path segments
\* /seg0/handle/seg2/post_id, of which the first len are there. A post_id
\* of 0 is the empty segment.
MkUrl(host, len, seg0, handle, seg2, post_id) ==
    [empty |-> FALSE, parses |-> TRUE, reason |-> "", host |-> host, len |-> len,
     seg0 |-> seg0, handle |-> handle, seg2 |-> seg2, post_id |-> post_id]

\* ?url= with nothing, or no url parameter at all
EmptyUrl == [MkUrl("", 0, "", "", "", 0) EXCEPT !.empty = TRUE, !.parses = FALSE]

\* a string Url::parse rejects
NotAUrl ==
    [MkUrl("", 0, "", "", "", 0) EXCEPT !.parses = FALSE,
                                        !.reason = "relative URL without a base"]

\* a string with a scheme and nothing after it, as "https://"
NoHostUrl == [MkUrl("", 0, "", "", "", 0) EXCEPT !.parses = FALSE, !.reason = "empty host"]

\* the post links of a forest, with a good and with a bad handle, and the
\* links that differ from a post link in one place
Urls(w) ==
    {EmptyUrl, NotAUrl, NoHostUrl} \cup
    UNION {{MkUrl("bsky.app", 4, "profile", h, "post", p) :
               h \in {HandleOf(w.author[p]), BadHandle}} : p \in 1..w.n} \cup
    {MkUrl("twitter.com", 4, "profile", "a.test", "post", 1),
     MkUrl("", 4, "profile", "a.test", "post", 1),
     MkUrl("bsky.app", 2, "profile", "a.test", "", 0),
     MkUrl("bsky.app", 5, "profile", "a.test", "post", 1),
     MkUrl("bsky.app", 4, "feed", "a.test", "post", 1),
     MkUrl("bsky.app", 4, "profile", "a.test", "likes", 1),
     MkUrl("bsky.app", 4, "profile", "", "post", 1),
     MkUrl("bsky.app", 4, "profile", "a.test", "post", 0)}

\* ParseError and its Display text; InvalidUrl carries the reason
\* Url::parse gave
ParseError(tag, reason) ==
    [tag |-> tag,
     msg |-> IF tag = "InvalidUrl" THEN <<"invalid URL: ", reason>>
             ELSE IF tag = "NotBlueskyUrl" THEN <<"URL must be a bsky.app link">>
             ELSE <<"URL must be a post link (e.g., bsky.app/profile/user/post/id)">>]

parse_bluesky_url(url) ==
    IF ~url.parses THEN Err(ParseError("InvalidUrl", url.reason))
    ELSE IF url.host # "bsky.app" THEN Err(ParseError("NotBlueskyUrl", ""))
    ELSE IF url.len < 4 THEN Err(ParseError("NotPostUrl", ""))
    ELSE IF url.seg0 # "profile" \/ url.seg2 # "post" THEN Err(ParseError("NotPostUrl", ""))
    ELSE IF url.handle = "" \/ url.post_id = 0 THEN Err(ParseError("NotPostUrl", ""))
    ELSE Ok([handle |-> url.handle, post_id |-> url.post_id])

\* the pages that are not error pages
landing_page == [status |-> 200, title |-> "landing", message |-> <<>>]

render_thread(thread) ==
    [status |-> 200, title |-> "thread",
     message |-> [i \in 1..Len(thread.posts) |-> thread.posts[i].cid]]

\* the requests of the three entry points: GET /?url=, the profile path
\* (streamed, or assembled whole for a crawler) and the updates endpoint
Requests(w) ==
    {[entry |-> "query", url |-> u, handle |-> "", post_id |-> 0] : u \in Urls(w)} \cup
    UNION {{[entry |-> e, url |-> EmptyUrl, handle |-> h, post_id |-> p] :
               e \in {"path", "updates"}, h \in {HandleOf(w.author[p]), BadHandle}} :
           p \in 1..w.n}

EOther == UNCHANGED <<chain, svars, hvars, cvars, lateFetches, pvars, since_cid, now, prev>>

\* handlers::get_thread up to the call of the client
GetThread ==
    /\ req.entry = "query"
    /\ bpc = "idle"
    /\ response = NoResponse
    /\ IF req.url.empty
       THEN response' = landing_page /\ UNCHANGED <<req, bpc>>
       ELSE LET parsed == parse_bluesky_url(req.url)
            IN IF parsed.ok
               THEN /\ req' = [req EXCEPT !.handle = parsed.v.handle,
                                          !.post_id = parsed.v.post_id]
                    /\ bpc' = "resolve"
                    /\ UNCHANGED response
               ELSE /\ response' = into_response([tag |-> "BadRequest", msg |-> parsed.v.msg])
                    /\ UNCHANGED <<req, bpc>>
    /\ UNCHANGED <<bcur, bdid, bthread, bresult, bfetches, berrs>>
    /\ EOther

\* fetch_and_render_thread once the client has returned
PageRespond ==
    /\ req.entry \in {"query", "path"}
    /\ bpc \in {"done", "failed"}
    /\ response = NoResponse
    /\ response' = IF bresult.ok THEN render_thread(bresult.thread)
                   ELSE into_response(map_client_error(bresult.err))
    /\ UNCHANGED <<req, bvars>>
    /\ EOther

\* a request arrives at one of the entry points
InitEntry ==
    /\ chain \in UpdateWorlds
    /\ req \in Requests(chain)
    /\ since_cid = <<>>
    /\ bpc = IF req.entry = "query" THEN "idle" ELSE "resolve"
    /\ bcur = NoUri
    /\ bdid = ""
    /\ bthread = NoThread
    /\ bresult = [ok |-> FALSE, err |-> NoErr, thread |-> NoThread]
    /\ bfetches = 0
    /\ berrs = <<>>
    /\ spc = "resolve"
    /\ scur = None
    /\ sdid = ""
    /\ sview = NoView
    /\ events = <<>>
    /\ sfetches = 0
    /\ serrs = <<>>
    /\ task = IF req.entry = "path" THEN "running" ELSE "none"
    /\ post_count = 0
    /\ chan = <<>>
    /\ body = <<>>
    /\ rxDropped = FALSE
    /\ lateFetches = 0
    /\ now = 0
    /\ response = NoResponse
    /\ prev = NoPrev
    /\ NoPoller

NextEntry ==
    \/ GetThread
    \/ Next
    \/ PageRespond
    \/ (req.entry = "updates" /\ \E at \in NowChoices(chain) : UpdatesRespond(at))

SpecEntry == InitEntry /\ [][NextEntry]_vars

(* ================== reply forests with parent cycles ================== *)
\* the fetches a walk is followed for in a forest with cycles
MaxHops == 7

\* forests whose parent links are arbitrary: a post may name itself or a
\* younger post as its parent; all posts are by one author, or all but the
\* newest
CycleWorlds ==
    { [n |-> MaxPosts, author |-> a, parent |-> par,
       flaw |-> [post |-> 0, kind |-> "none"], order |-> "asc"] :
        a \in {f \in [1..MaxPosts -> Dids] : \A p \in 1..(MaxPosts - 1) : f[p] = "did:a"},
        par \in [1..MaxPosts -> 0..MaxPosts] }

InitCycle ==
    /\ chain \in CycleWorlds
    /\ \E p \in 1..chain.n :
         req \in {[handle |-> h, post_id |-> p] : h \in {HandleOf(chain.author[p]), BadHandle}}
    /\ bpc = "resolve"
    /\ bcur = NoUri
    /\ bdid = ""
    /\ bthread = NoThread
    /\ bresult = [ok |-> FALSE, err |-> NoErr, thread |-> NoThread]
    /\ bfetches = 0
    /\ berrs = <<>>
    /\ spc = "resolve"
    /\ scur = None
    /\ sdid = ""
    /\ sview = NoView
    /\ events = <<>>
    /\ sfetches = 0
    /\ serrs = <<>>
    /\ task = "running"
    /\ post_count = 0
    /\ chan = <<>>
    /\ body = <<>>
    /\ rxDropped = FALSE
    /\ lateFetches = 0
    /\ since_cid = <<>>
    /\ now = 0
    /\ response = NoResponse
    /\ prev = NoPrev
    /\ NoPoller

\* the walks are followed up to MaxHops fetches each
NextCycle ==
    \/ \E o \in ResolveOutcomes : BResolve(o)
    \/ \E o \in FetchOutcomes : bfetches < MaxHops /\ BLocate(o)
    \/ \E o \in FetchOutcomes : BRoot(o)
    \/ \E o \in FetchOutcomes : BWalk(o)
    \/ \E o \in ResolveOutcomes : SResolve(o)
    \/ (spc = "locate" => sfetches < MaxHops) /\ SIssue
    \/ \E o \in FetchOutcomes : SLocate(o)
    \/ \E o \in FetchOutcomes : SRoot(o)
    \/ SRootPost
    \/ \E o \in FetchOutcomes : SWalk(o)
    \/ SDone
    \/ Recv
    \/ Disconnect

SpecCycle == InitCycle /\ [][NextCycle]_vars

(* ======================= properties of the walk ======================= *)
IsPost(e) == e.kind = "Post"

\* the ThreadPosts of the Post events, in the order they were yielded
PostEvents ==
    LET sel == SelectSeq(events, IsPost)
    IN [i \in 1..Len(sel) |-> sel[i].post]

\* the post numbers of a sequence of ThreadPosts
Rkeys(posts) == [i \in 1..Len(posts) |-> posts[i].uri.rkey]

StartPost == req.post_id

\* the fetches of the streamed walk that have been answered: all but the
\* one the task is waiting for
SAnswered == IF task = "waiting" THEN sfetches - 1 ELSE sfetches

\* the parent of p when it is a visible post by p's author, else 0
SameAuthorParent(w, p) ==
    IF w.parent[p] # 0 /\ ~Hidden(w, w.parent[p]) /\ w.author[w.parent[p]] = w.author[p]
    THEN w.parent[p] ELSE 0

RECURSIVE PathUp(_, _)
\* p, its same-author parent, that one's same-author parent, ...
PathUp(w, p) ==
    IF SameAuthorParent(w, p) = 0 THEN <<p>>
    ELSE <<p>> \o PathUp(w, SameAuthorParent(w, p))

RootOf(w, p) == Last(PathUp(w, p))

\* the visible replies to p by author did
SelfReplies(w, p, did) ==
    {q \in 1..w.n : w.parent[q] = p /\ w.author[q] = did /\ ~Hidden(w, q)}

\* C1: a stream that meets no error yields one Header first, then one or
\* more Posts, each a same-author reply to the Post before it and the first
\* of them the root, then one Done as its last item; nothing follows Done
C1_StreamShape ==
    /\ \A i \in 1..Len(events) :
          /\ events[i].kind = "Header" => i = 1
          /\ events[i].kind = "Post" => i >= 2 /\ events[1].kind = "Header"
          /\ events[i].kind = "Done" => i = Len(events) /\ spc = "done"
    /\ spc = "done" =>
          /\ Len(events) >= 3
          /\ events[1].kind = "Header"
          /\ Last(events).kind = "Done"
          /\ \A i \in 2..(Len(events) - 1) : events[i].kind = "Post"
          /\ LET ps == Rkeys(PostEvents)
             IN /\ ps[1] = RootOf(chain, StartPost)
                /\ \A i \in 1..(Len(ps) - 1) :
                      /\ chain.parent[ps[i + 1]] = ps[i]
                      /\ chain.author[ps[i + 1]] = chain.author[ps[1]]
                /\ SelfReplies(chain, Last(ps), chain.author[ps[1]]) = {}

C1_Witness ==
    /\ spc = "done"
    /\ Len(PostEvents) >= 3
    /\ StartPost # RootOf(chain, StartPost)

\* C2: an error raised in the streamed walk is yielded as the last item of
\* the stream: the stream has failed and its task has ended, no Done was or
\* is yielded, no item follows the error, and the error fragment is the
\* last chunk sent to a body that is still there
C2_ErrorEndsStream ==
    /\ \A i \in 1..Len(events) : events[i].kind = "Err" => i = Len(events)
    /\ spc = "failed" <=> serrs # <<>>
    /\ serrs # <<>> =>
          /\ Len(serrs) = 1
          /\ task = "ended"
          /\ Last(events) = ErrItem(serrs[1])
          /\ \A i \in 1..Len(events) : events[i].kind # "Done"
          /\ ~rxDropped =>
                /\ Last(body \o chan).kind = "error"
                /\ \A i \in 1..Len(body \o chan) : (body \o chan)[i].kind # "footer"

C2_Witness ==
    /\ spc = "failed"
    /\ Len(PostEvents) >= 2
    /\ ~rxDropped
    /\ chan = <<>>

\* C3: an error raised by handle resolution, root location or a forward
\* fetch of the buffered walk is what the call returns, and it returns no
\* Thread: none of the posts collected before it
C3_FailFast ==
    /\ bpc = "failed" <=> berrs # <<>>
    /\ berrs # <<>> =>
          /\ Len(berrs) = 1
          /\ ~bresult.ok
          /\ bresult.err = berrs[1]
          /\ bresult.thread = NoThread
    /\ bresult.ok => bpc = "done"

C3_Witness ==
    /\ bpc = "failed"
    /\ Len(bthread.posts) >= 2
    /\ bresult.thread.posts = <<>>

NoHidden(w) == w.flaw.kind \notin {"notFound", "blocked"}

\* where root location stands after `fetches` fetches, and what it returns
LocateOK(pc, cur, fetches) ==
    LET path == PathUp(chain, StartPost)
        root == Last(path)
    IN /\ pc = "locate" => fetches < Len(path) /\ cur = UriOf(chain, path[fetches + 1])
       /\ pc = "root" =>
             /\ fetches = Len(path)
             /\ cur = UriOf(chain, root)
             /\ \/ chain.parent[root] = 0
                \/ chain.author[chain.parent[root]] # chain.author[root]
             /\ \A i \in 1..(Len(path) - 1) :
                   /\ chain.parent[path[i]] = path[i + 1]
                   /\ chain.author[path[i]] = chain.author[root]

\* C4: in a forest without deleted or blocked posts, root location that
\* meets no error climbs one same-author parent per fetch and returns, after
\* as many fetches as there are posts from the start up to the root, the
\* ancestor of the start whose parent is absent or by another author
C4_LocateRoot ==
    NoHidden(chain) =>
        /\ LocateOK(bpc, bcur, bfetches)
        /\ LocateOK(spc, scur.v, SAnswered)

C4_Witness ==
    /\ bpc = "root"
    /\ bfetches >= 3
    /\ chain.parent[RootOf(chain, StartPost)] # 0

\* every post replies to the one before it and all are by one author
IsSelfChain(w) ==
    /\ w.flaw.kind = "none"
    /\ \A p \in 1..w.n : w.parent[p] = p - 1 /\ w.author[p] = w.author[1]

\* the posts of a completed walk: of the Thread, or of the Post events
WalkedOK(posts) ==
    /\ IsSelfChain(chain) =>
          posts = [i \in 1..chain.n |->
                     [uri |-> UriOf(chain, i), cid |-> CidOf(i),
                      created_at |-> parse_created_at(RecordCreatedAt(chain, i))]]
    /\ ( /\ chain.parent[StartPost] = 0
         /\ \A q \in 1..chain.n :
               chain.parent[q] = StartPost => chain.author[q] # chain.author[StartPost] )
       => posts = <<[uri |-> UriOf(chain, StartPost), cid |-> CidOf(StartPost),
                     created_at |-> parse_created_at(RecordCreatedAt(chain, StartPost))]>>

\* C5: on a linear self-reply chain a walk that meets no error returns (and
\* a stream yields) every post of the chain once, root first and leaf last,
\* whatever the start post; a start post without parent and without a reply
\* by its author gives a Thread of that one post
C5_WalkForward ==
    /\ bpc = "done" => WalkedOK(bresult.thread.posts)
    /\ spc = "done" => WalkedOK(PostEvents)

C5_Witness ==
    /\ bpc = "done"
    /\ IsSelfChain(chain)
    /\ chain.n >= 4
    /\ StartPost >= 3

\* C6: when the streamed and the buffered walk of the same request both
\* complete, the Post events carry, in order, the posts of the Thread, and
\* the Header carries the Thread's author
C6_StreamEqualsBuffered ==
    (bpc = "done" /\ spc = "done") =>
        /\ PostEvents = bresult.thread.posts
        /\ events[1].kind = "Header"
        /\ events[1].author = bresult.thread.author

C6_Witness ==
    /\ bpc = "done"
    /\ spc = "done"
    /\ Len(bresult.thread.posts) >= 2
    /\ StartPost # RootOf(chain, StartPost)

\* C7: no getPostThread call is issued for a stream after the receiver of
\* its response body was dropped
C7_NoFetchAfterDrop == lateFetches = 0

WalkState(pc) ==
    CASE pc = "resolve" -> "ResolvingHandle"
      [] pc = "locate" -> "LocatingRoot"
      [] pc \in {"root", "rootPost", "walk"} -> "WalkingForward"
      [] pc = "done" -> "Complete"
      [] pc = "failed" -> "Failed"

Transitions ==
    { <<"ResolvingHandle", "LocatingRoot">>, <<"ResolvingHandle", "Failed">>,
      <<"LocatingRoot", "WalkingForward">>, <<"LocatingRoot", "Failed">>,
      <<"WalkingForward", "WalkingForward">>, <<"WalkingForward", "Complete">>,
      <<"WalkingForward", "Failed">> }

Terminal == {"Complete", "Failed"}

StateStep(pc, pc2) ==
    WalkState(pc) = WalkState(pc2) \/ <<WalkState(pc), WalkState(pc2)>> \in Transitions

\* C8: both walks start in ResolvingHandle; a step changes the state of a
\* walk only along ResolvingHandle -> LocatingRoot | Failed, LocatingRoot ->
\* WalkingForward | Failed, WalkingForward -> Complete | Failed; a walk
\* enters Failed exactly in a step that raises an error; and in Complete or
\* Failed a walk issues no fetch and produces no post, event or result
C8_WalkStateMachine ==
    /\ WalkState(bpc) = "ResolvingHandle" /\ WalkState(spc) = "ResolvingHandle"
    /\ [][ /\ StateStep(bpc, bpc')
           /\ StateStep(spc, spc')
           /\ (berrs' # berrs) <=> (bpc # "failed" /\ bpc' = "failed")
           /\ (serrs' # serrs) <=> (spc # "failed" /\ spc' = "failed")
           /\ WalkState(bpc) \in Terminal =>
                 UNCHANGED <<bpc, bfetches, bthread, bresult, berrs>>
           /\ WalkState(spc) \in Terminal =>
                 UNCHANGED <<spc, sfetches, events, serrs>> ]_vars

C8_Witness ==
    /\ spc = "done"
    /\ bpc = "failed"
    /\ bfetches >= 3

FivePostChain == LinearChain(5, FALSE)

\* C9 as stated: when the third fetch on a five-post chain returns
\* RateLimited, the buffered call returns RateLimited and no Thread, and the
\* stream has yielded exactly two Posts and no Done
C9_Original ==
    chain = FivePostChain =>
        /\ (bpc = "failed" /\ bfetches = 3 /\ berrs = <<RateLimited>>) =>
              bresult = [ok |-> FALSE, err |-> RateLimited, thread |-> NoThread]
        /\ (spc = "failed" /\ sfetches = 3 /\ serrs = <<RateLimited>>) =>
              /\ Len(PostEvents) = 2
              /\ \A i \in 1..Len(events) : events[i].kind # "Done"

\* C9 amended: when the third fetch on a five-post chain returns
\* RateLimited, the buffered call returns RateLimited and no Thread, and the
\* stream ends with the error and without Done, having yielded the Header
\* and exactly one Post (the root) when the start post is the root, and
\* nothing but the error otherwise
C9_ThirdFetchRateLimited ==
    chain = FivePostChain =>
        /\ (bpc = "failed" /\ bfetches = 3 /\ berrs = <<RateLimited>>) =>
              bresult = [ok |-> FALSE, err |-> RateLimited, thread |-> NoThread]
        /\ (spc = "failed" /\ sfetches = 3 /\ serrs = <<RateLimited>>) =>
              /\ Last(events) = ErrItem(RateLimited)
              /\ \A i \in 1..Len(events) : events[i].kind # "Done"
              /\ IF StartPost = 1
                 THEN /\ Len(events) = 3
                      /\ events[1].kind = "Header"
                      /\ Rkeys(PostEvents) = <<1>>
                 ELSE Len(events) = 1

C9_Witness ==
    /\ chain = FivePostChain
    /\ StartPost = 1
    /\ spc = "failed" /\ sfetches = 3 /\ serrs = <<RateLimited>>
    /\ Len(PostEvents) = 1

\* the first visible reply to p by author did, in the order the API lists
\* the replies; 0 when there is none
FirstSelfReply(w, p, did) ==
    LET rs == RepliesOrder(w, p)
        hits == {i \in 1..Len(rs) : w.author[rs[i]] = did /\ ~Hidden(w, rs[i])}
    IN IF hits = {} THEN 0 ELSE rs[CHOOSE i \in hits : \A j \in hits : i <= j]

RECURSIVE AncestorsOrSelf(_, _)
AncestorsOrSelf(w, x) ==
    IF x = 0 THEN {} ELSE {x} \cup AncestorsOrSelf(w, w.parent[x])

\* the posts at or below a same-author reply to p that is not the first one
OtherBranches(w, p, did) ==
    {x \in 1..w.n :
        \E q \in SelfReplies(w, p, did) \ {FirstSelfReply(w, p, did)} :
            q \in AncestorsOrSelf(w, x)}

FollowsFirstReply(ps) ==
    \A i \in 1..Len(ps) :
        /\ i < Len(ps) => ps[i + 1] = FirstSelfReply(chain, ps[i], chain.author[ps[1]])
        /\ \A j \in 1..Len(ps) : ps[j] \notin OtherBranches(chain, ps[i], chain.author[ps[1]])

\* C10: every post collected or yielded after the root is the first
\* same-author reply, in API order, to the post before it, and no post at or
\* below another same-author reply of a post of the chain is in the result
C10_FirstBranchOnly ==
    /\ FollowsFirstReply(Rkeys(bthread.posts))
    /\ FollowsFirstReply(Rkeys(bresult.thread.posts))
    /\ FollowsFirstReply(Rkeys(PostEvents))

C10_Witness ==
    /\ bpc = "done"
    /\ spc = "done"
    /\ \E i \in 1..Len(bresult.thread.posts) :
          Cardinality(SelfReplies(chain, bresult.thread.posts[i].uri.rkey,
                                  bresult.thread.author.did)) >= 2

(* ======================= properties of the Thread ===================== *)
\* the posts are a chain of replies: each one answers the one before it
InReplyOrder(w, posts) ==
    \A i \in 2..Len(posts) : w.parent[posts[i].uri.rkey] = posts[i - 1].uri.rkey

\* every post was written by the Thread's author
ByThreadAuthor(w, thread) ==
    \A i \in 1..Len(thread.posts) :
        /\ w.author[thread.posts[i].uri.rkey] = thread.author.did
        /\ thread.posts[i].uri.did = thread.author.did

\* C11: a Thread returned by a successful assembly has at least one post,
\* its first post is the root (the start post's topmost same-author
\* ancestor), every later post replies to the post before it, and every
\* post is by the Thread's author
C11_ThreadInvariant ==
    bpc = "done" =>
        /\ bresult.ok
        /\ bresult.thread.posts # <<>>
        /\ bresult.thread.posts[1].uri.rkey = RootOf(chain, StartPost)
        /\ InReplyOrder(chain, bresult.thread.posts)
        /\ ByThreadAuthor(chain, bresult.thread)
        /\ bresult.thread.author.did = chain.author[StartPost]

\* a Thread of two posts whose root also has an earlier reply by the other
\* author, which the Thread leaves out
C11_Witness ==
    /\ bpc = "done"
    /\ Len(bresult.thread.posts) >= 2
    /\ \E q \in 1..chain.n :
          /\ chain.parent[q] = bresult.thread.posts[1].uri.rkey
          /\ chain.author[q] # bresult.thread.author.did
          /\ q < bresult.thread.posts[2].uri.rkey
          /\ ~Hidden(chain, q)

\* the cids of a sequence of ThreadPosts
Cids(posts) == [i \in 1..Len(posts) |-> posts[i].cid]

(* ================== properties of the update requests ================= *)
\* the request has been answered from a Thread
Answered == response # NoResponse /\ bresult.ok

\* C13: an update request whose since_cid is the cid of the post at
\* position i of the re-assembled Thread p1..pn is answered, when i < n, with
\* status 200 carrying exactly p(i+1)..pn in order, X-Last-CID the cid of pn,
\* X-Post-Count n - i and X-Thread-Stale false; when i = n, with status 204
\* and no posts
C13_PollDiff ==
    Answered =>
        LET posts == bresult.thread.posts
            n == Len(posts)
        IN \A i \in 1..n :
              posts[i].cid = since_cid =>
                 IF i < n
                 THEN /\ response.status = 200
                      /\ response.body = [k \in 1..(n - i) |-> posts[i + k].cid]
                      /\ response.last_cid = posts[n].cid
                      /\ response.post_count = n - i
                      /\ response.stale = "false"
                 ELSE /\ response.status = 204
                      /\ response.body = <<>>
                      /\ response.post_count = 0
                      /\ response.last_cid = <<>>

\* since_cid is the second post of a Thread of four or more: the response
\* carries the two or more posts after it
C13_Witness ==
    /\ Answered
    /\ Len(bresult.thread.posts) >= 4
    /\ bresult.thread.posts[2].cid = since_cid
    /\ response.status = 200
    /\ response.post_count >= 2

(* ====================== properties of the poller ====================== *)
\* the step is a poll
Polled == pstep'.count # pstep.count

\* C14: a poll answered "no new content", not stale, leaves the cursor as it
\* is and sets the interval to 1.5 times the current one, or to the maximum
\* if that is less
C14_NoChangeBackoff ==
    [][ (Polled /\ response'.status = 204 /\ response'.stale = "false") =>
            /\ 2 * interval' =
                 IF 3 * interval <= 2000 * poll_max_interval
                 THEN 3 * interval ELSE 2000 * poll_max_interval
            /\ cursor' = cursor ]_vars

\* two polls without new posts have taken the interval from 30 s to 67.5 s
C14_Witness ==
    /\ pstep.result = "NoChange"
    /\ response.status = 204
    /\ interval = 67500
    /\ streak = 2

\* C15: a poll answered with new posts resets the interval to the initial
\* interval and moves the cursor to the X-Last-CID of the response, which is
\* the cid of the newest post of the thread
C15_NewPostsReset ==
    [][ (Polled /\ response'.status = 200) =>
            /\ interval' = 1000 * poll_initial_interval
            /\ cursor' = response'.last_cid
            /\ cursor' = CidOf(chain.n)
            /\ cursor' # cursor ]_vars

\* a poll after a backoff brought two new posts at once
C15_Witness ==
    /\ pstep.result = "NewPosts"
    /\ response.post_count = 2
    /\ cursor = CidOf(3)
    /\ interval = 30000
    /\ streak = 0
    /\ pstep.cause = "timer"

\* C16: a poll that fails (no answer, or an error status) doubles the
\* interval up to the maximum, leaves the cursor as it is, keeps automatic
\* polling on and leaves a timer pending for the next poll
C16_ErrorBackoff ==
    [][ (Polled /\ response'.status \notin {200, 204}) =>
            /\ interval' =
                 IF 2 * interval <= 1000 * poll_max_interval
                 THEN 2 * interval ELSE 1000 * poll_max_interval
            /\ cursor' = cursor
            /\ auto'
            /\ timer' = interval' ]_vars

\* a poll got no answer while the interval was 45 s: the next is due in 90 s
C16_Witness ==
    /\ pstep.result = "Error"
    /\ response = NoResponse
    /\ interval = 90000
    /\ timer = 90000

\* C17: starting from the initial interval of 30 s, consecutive polls
\* without new posts give the intervals 45 s, 67.5 s, 101.25 s and then
\* 120 s after every further one; a poll with new posts gives 30 s again
C17_BackoffSequence ==
    /\ streak = 0 => interval = 30000
    /\ streak = 1 => interval = 45000
    /\ streak = 2 => interval = 67500
    /\ streak = 3 => interval = 101250
    /\ streak >= 4 => interval = 120000
    /\ pstep.result = "NewPosts" => interval = 30000 /\ streak = 0

\* five polls in a row without new posts: the interval stays at 120 s
C17_Witness ==
    /\ streak = 5
    /\ interval = 120000
    /\ pstep.result = "NoChange"

\* C18: a poll that finds no new posts when the last known post is
\* poll_disable_after seconds old or older is answered stale, and turns
\* automatic polling off with no timer pending; while automatic polling is
\* off the only polls are manual refreshes; a response with new posts is
\* never stale
C18_Staleness ==
    [][ /\ ( /\ Polled
             /\ response'.status = 204
             /\ num_seconds(now' - CreatedAt(cursor[2])) >= poll_disable_after )
           => (response'.stale = "true" /\ ~auto' /\ timer' = -1)
        /\ (Polled /\ ~auto) => pstep'.cause = "manual"
        /\ response'.status = 200 => (response'.stale = "false" /\ auto') ]_vars

\* the timer's poll, exactly poll_disable_after after the last post, was
\* answered stale: automatic polling is off
C18_Witness ==
    /\ pstep.cause = "timer"
    /\ pstep.result = "Stale"
    /\ now - CreatedAt(cursor[2]) = 1000 * poll_disable_after
    /\ ~auto
    /\ timer = -1

\* C19: a poll leaves the page visible, so none is made while it is hidden;
\* when the page becomes visible with automatic polling on, it polls in that
\* step exactly if more than the interval has passed since the last poll, and
\* otherwise the timer is set to what is left of the interval
C19_Visibility ==
    [][ /\ Polled => visible'
        /\ (~visible /\ visible' /\ auto) =>
              IF elapsed > interval
              THEN Polled /\ pstep'.cause = "visible"
              ELSE /\ ~Polled
                   /\ timer' = interval - elapsed
                   /\ interval' = interval
                   /\ elapsed' = elapsed ]_vars

\* the page came back after more than the interval and polled at once
C19_Witness ==
    /\ pstep.cause = "visible"
    /\ visible
    /\ elapsed = 0
    /\ auto

\* C20: a manual refresh is one poll, made whatever time is left on the
\* timer; the timer is then set to the full new interval, counted from that
\* poll, unless the answer was stale; and the timer never makes a poll before
\* a full interval has passed since the last poll of any kind
C20_ManualRefresh ==
    [][ /\ (Polled /\ pstep'.cause = "manual") =>
              /\ elapsed' = 0
              /\ timer' = IF auto' THEN interval' ELSE -1
              /\ visible'
        /\ (Polled /\ pstep'.cause = "timer") => elapsed >= interval ]_vars

\* a manual refresh was answered "no new content": the next poll is due a
\* full 45 s after it, whatever was left on the timer it replaced
C20_Witness ==
    /\ pstep.cause = "manual"
    /\ pstep.result = "NoChange"
    /\ interval = 45000
    /\ timer = 45000
    /\ elapsed = 0

\* C24: an update request whose since_cid is the cid of no post of the
\* re-assembled Thread is answered with status 200 carrying every post of
\* the Thread, root first and leaf last, X-Post-Count the length of the
\* Thread and X-Last-CID the cid of its last post
C24_UnknownSinceReturnsAll ==
    (Answered /\ \A i \in 1..Len(bresult.thread.posts) :
                    bresult.thread.posts[i].cid # since_cid) =>
        /\ response.status = 200
        /\ response.body = Cids(bresult.thread.posts)
        /\ response.post_count = Len(bresult.thread.posts)
        /\ response.last_cid = Last(bresult.thread.posts).cid
        /\ response.stale = "false"

\* since_cid is the cid of a post of the forest that is not in the Thread,
\* and the Thread of three or more posts comes back whole
C24_Witness ==
    /\ Answered
    /\ Len(bresult.thread.posts) >= 3
    /\ since_cid # CidOf(0)
    /\ \A i \in 1..Len(bresult.thread.posts) : bresult.thread.posts[i].cid # since_cid
    /\ response.post_count = Len(bresult.thread.posts)

\* C28: when a request was answered with new posts and the next request for
\* the same thread, on the unchanged forest, carries the X-Last-CID of that
\* answer as its since_cid, the next answer is 204 with no posts: no post of
\* the first answer is delivered again
C28_NoDuplicateAcrossPolls ==
    (prev.some /\ prev.response.status = 200 /\ Answered
       /\ since_cid = prev.response.last_cid) =>
        /\ response.status = 204
        /\ response.body = <<>>
        /\ \A i \in 1..Len(prev.response.body) :
              \A j \in 1..Len(response.body) : prev.response.body[i] # response.body[j]

\* the first answer carried two or more posts, the second none
C28_Witness ==
    /\ prev.some
    /\ prev.response.status = 200
    /\ prev.response.post_count >= 2
    /\ since_cid = prev.response.last_cid
    /\ Answered
    /\ response.status = 204

(* ==================== properties of the fetch count =================== *)
\* the getPostThread calls of a walk over a chain of n posts from post k
FetchCountOK(pc, fetches) ==
    /\ pc = "root" => fetches = StartPost
    /\ pc \in {"rootPost", "walk"} => fetches > StartPost /\ fetches <= StartPost + chain.n
    /\ pc = "done" => fetches = StartPost + chain.n

\* C25: on a linear chain of n posts by one author, a walk from the post at
\* position k that meets no error has issued k fetches when root location
\* returns and k + n when it completes, buffered or streamed: one fetch per
\* post from the start up to the root, the root once more, and one per
\* later post
C25_FetchCount ==
    IsSelfChain(chain) =>
        /\ FetchCountOK(bpc, bfetches)
        /\ FetchCountOK(spc, SAnswered)

\* both walks of a chain of five posts from its third post are complete
C25_Witness ==
    /\ IsSelfChain(chain)
    /\ chain.n = 5
    /\ StartPost = 3
    /\ bpc = "done"
    /\ spc = "done"
    /\ bfetches = 8
    /\ sfetches = 8

(* ================== properties of the producer task =================== *)
\* C26: once the receiver is dropped, the producer task goes on fetching
\* only while it is still running, yields at most one more stream item, and
\* with that item's failed send it ends: nothing is sent, and after it the
\* task neither fetches nor yields again
C26_StopsAtNextSend ==
    [][ rxDropped =>
          /\ sfetches' # sfetches => (task = "running" /\ lateFetches' = lateFetches + 1)
          /\ events' # events =>
                /\ task # "ended"
                /\ task' = "ended"
                /\ Len(events') = Len(events) + 1
                /\ chan' = chan
          /\ task = "ended" => (task' = "ended" /\ sfetches' = sfetches /\ events' = events)
      ]_vars

\* the receiver was dropped before the first fetch: the task made the three
\* or more fetches up to the Header, failed to send it, and ended
C26_Witness ==
    /\ rxDropped
    /\ task = "ended"
    /\ lateFetches >= 3
    /\ Len(events) = 1
    /\ events[1].kind = "Header"
    /\ body = <<>>

\* what has reached or will reach the client: delivered and queued chunks
Chunks == body \o chan

\* C27: when resolve_handle, find_root_uri_async or the fetch of the root
\* fails, the error is the stream's only item, with no Header and no Post
\* before it, and the response is the error fragment alone: no head chunk
\* is ever sent
C27_ErrorBeforeHeader ==
    [][ /\ (spc \in {"resolve", "locate", "root"} /\ spc' = "failed") =>
              /\ events' = <<ErrItem(Last(serrs'))>>
              /\ task' = "ended"
              /\ post_count' = 0
              /\ body' = <<>>
              /\ chan' = IF rxDropped THEN <<>> ELSE <<[kind |-> "error", uri |-> NoUri]>>
        /\ (events' # <<>> /\ events'[1].kind = "Err") =>
              /\ events' = events \/ events = <<>>
              /\ Chunks' \in {<<>>, <<[kind |-> "error", uri |-> NoUri]>>}
              /\ rxDropped' \/ Chunks' # <<>>
      ]_vars

\* the third fetch of root location failed, and the client has received
\* the whole response: one error fragment
C27_Witness ==
    /\ spc = "failed"
    /\ sfetches >= 3
    /\ Len(events) = 1
    /\ events[1].kind = "Err"
    /\ task = "ended"
    /\ ~rxDropped
    /\ chan = <<>>
    /\ body = <<[kind |-> "error", uri |-> NoUri]>>

\* the kind of chunk the i-th stream item is answered with
ChunkKindFor(i) ==
    IF events[i].kind = "Header" THEN "head"
    ELSE IF events[i].kind = "Done" THEN "footer"
    ELSE IF events[i].kind = "Err" THEN "error"
    ELSE IF \A j \in 1..(i - 1) : events[j].kind # "Post" THEN "firstPost" ELSE "post"

\* C29: while the response is not abandoned, the chunks sent are one per
\* stream item, in the order of the items; the task has ended exactly when
\* the last chunk is the footer (for Done) or the error fragment (for an
\* error), no earlier chunk is either of them, and an ended task has sent
\* such a last chunk
C29_OneChunkPerItem ==
    ~rxDropped =>
        /\ Len(Chunks) = Len(events)
        /\ \A i \in 1..Len(events) :
              /\ Chunks[i].kind = ChunkKindFor(i)
              /\ events[i].kind = "Post" => Chunks[i].uri = events[i].post.uri
              /\ Chunks[i].kind \in {"footer", "error"} => i = Len(events)
        /\ task = "ended" <=>
              (Chunks # <<>> /\ Last(Chunks).kind \in {"footer", "error"})

\* a whole response of head, three or more posts and footer was received
C29_Witness ==
    /\ ~rxDropped
    /\ task = "ended"
    /\ chan = <<>>
    /\ Len(body) >= 5
    /\ body[1].kind = "head"
    /\ body[2].kind = "firstPost"
    /\ Last(body).kind = "footer"

(* ============ properties of not-found and blocked entries ============= *)
\* the forest has a deleted or blocked post, and it is not the start post
HiddenElsewhere ==
    /\ chain.flaw.kind \in {"notFound", "blocked"}
    /\ chain.flaw.post # StartPost

\* no call has come back with NotFound or Blocked
NoHiddenError(errs) ==
    \A i \in 1..Len(errs) : errs[i].tag \notin {"NotFound", "Blocked"}

\* the walk went past hidden entries: it starts at a post whose parent is
\* absent, hidden or by another author, goes from each post to its oldest
\* visible reply by the author, and ends where there is none
SkipsHidden(posts) ==
    LET rk == Rkeys(posts)
        did == chain.author[StartPost]
    IN /\ rk # <<>>
       /\ \A i \in 1..Len(rk) : ~Hidden(chain, rk[i])
       /\ \/ chain.parent[rk[1]] = 0
          \/ Hidden(chain, chain.parent[rk[1]])
          \/ chain.author[chain.parent[rk[1]]] # did
       /\ \A i \in 1..Len(rk) :
             LET cands == SelfReplies(chain, rk[i], did)
             IN IF cands = {} THEN i = Len(rk)
                ELSE /\ i < Len(rk)
                     /\ rk[i + 1] = CHOOSE q \in cands : \A r \in cands : q <= r

\* C30: in a forest with a deleted or blocked post other than the start
\* post, no walk ever gets a NotFound or Blocked error; root location stops
\* below a hidden parent and takes the current post for the root, and the
\* forward walk passes over a hidden reply to the next reply by the author,
\* or ends there without error when there is none
C30_HiddenSlotsAbsent ==
    HiddenElsewhere =>
        /\ NoHiddenError(berrs)
        /\ NoHiddenError(serrs)
        /\ bpc = "done" => SkipsHidden(bresult.thread.posts)
        /\ spc = "done" => SkipsHidden(PostEvents)
        /\ (bpc = "failed" /\ berrs # <<>>) => Last(berrs).tag \in {"RateLimited", "Api", "InvalidResponse"}

\* the Thread goes from a post past its hidden older reply by the author to
\* a younger one
C30_Witness ==
    /\ HiddenElsewhere
    /\ bpc = "done"
    /\ chain.author[chain.flaw.post] = chain.author[StartPost]
    /\ \E i \in 1..(Len(bresult.thread.posts) - 1) :
          /\ chain.parent[chain.flaw.post] = bresult.thread.posts[i].uri.rkey
          /\ chain.flaw.post < bresult.thread.posts[i + 1].uri.rkey

(* =================== properties of the error pages ==================== *)
\* the errors a call of the client can return
ClientErrors ==
    {NotFound, Blocked, RateLimited, InvalidResponse, Api(<<"invalid handle">>),
     Api(<<"error", "NotFound">>)} \cup {map_api_error(o) : o \in ApiErrors}

\* the condition an error stands for
Condition(e) ==
    IF e = NotFound THEN "NotFound"
    ELSE IF e = Blocked THEN "Blocked"
    ELSE IF e = InvalidResponse THEN "Malformed"
    ELSE IF e = Api(<<"invalid handle">>) THEN "InvalidInput"
    ELSE "other"

Surfaced == {"NotFound", "Blocked", "Malformed", "InvalidInput"}

\* the errors of the other surfaced conditions
OtherConditions(e) ==
    {e2 \in ClientErrors : Condition(e2) \in Surfaced /\ Condition(e2) # Condition(e)}

\* what the user gets from the handlers that answer with an error page
ErrorPage(e) == into_response(map_client_error(e))

\* what the user gets at the end of a streamed page
ErrorFragment(e) == streaming_error(to_string(e))

\* C21: a call that fails with NotFound, Blocked, InvalidResponse or an
\* invalid handle is shown to the user, as error page and as the last
\* fragment of a streamed page, differently from each of the other three
\* conditions, and the failed call is the last call made: nothing is retried
C21_DistinctAndNotRetried ==
    /\ (bpc = "failed" /\ Condition(bresult.err) \in Surfaced) =>
          /\ \A e2 \in OtherConditions(bresult.err) :
                ErrorPage(e2) # ErrorPage(bresult.err)
          /\ Len(berrs) = 1
    /\ (spc = "failed" /\ Condition(Last(serrs)) \in Surfaced) =>
          /\ \A e2 \in OtherConditions(Last(serrs)) :
                ErrorFragment(e2) # ErrorFragment(Last(serrs))
          /\ Len(serrs) = 1

(* ================= properties of the entry points ===================== *)
\* a link of the shape https://bsky.app/profile/<handle>/post/<id>
IsPostLink(u) ==
    /\ u.parses /\ u.host = "bsky.app" /\ u.len >= 4
    /\ u.seg0 = "profile" /\ u.seg2 = "post"
    /\ u.handle # "" /\ u.post_id # 0

\* the request's link is not a post link
MalformedUrl == req.entry = "query" /\ ~req.url.empty /\ ~IsPostLink(req.url)

\* the handle handed to the client does not parse as a handle
MalformedHandle == bpc # "idle" /\ req.handle \notin ValidHandles

InvalidHandle == Api(<<"invalid handle">>)

\* C22: a request with a link that is not a post link is answered with
\* the Bad Request page and the client is never called; a request with
\* a handle that is not a handle fails in resolve_handle with "invalid
\* handle" as the only error of the call, whatever the resolution service
\* and the API would have answered, with no context fetched and, on the
\* streaming path, nothing but the error yielded: on the URL query, the
\* profile path and the updates endpoint alike
C22_RejectedBeforeAnyFetch ==
    /\ MalformedUrl =>
          /\ bpc = "idle" /\ bfetches = 0 /\ berrs = <<>>
          /\ sfetches = 0 /\ events = <<>>
          /\ response # NoResponse => response.status = 400
    /\ MalformedHandle =>
          /\ bfetches = 0 /\ sfetches = 0
          /\ bpc \in {"resolve", "failed"} /\ spc \in {"resolve", "failed"}
          /\ bpc = "failed" => bresult.err = InvalidHandle /\ berrs = <<InvalidHandle>>
          /\ spc = "failed" => serrs = <<InvalidHandle>> /\ events = <<ErrItem(InvalidHandle)>>
          /\ response # NoResponse =>
                response.status = into_response(map_client_error(InvalidHandle)).status

\* a post link with a bad handle has been answered
C22_Witness ==
    /\ req.entry = "query"
    /\ MalformedHandle
    /\ bpc = "failed"
    /\ response.status = 500
    /\ bfetches = 0

(* ================== properties of parent cycles ======================= *)
RECURSIVE Climbs(_, _, _)
\* k same-author parent links can be followed upward from p
Climbs(w, p, k) ==
    IF k = 0 THEN TRUE
    ELSE SameAuthorParent(w, p) # 0 /\ Climbs(w, SameAuthorParent(w, p), k - 1)

\* the same-author parent links above the start post run into a cycle:
\* as many links as there are posts can be followed
CycleFromStart == Climbs(chain, StartPost, chain.n)

\* no Thread has been returned and no Header yielded
NothingProduced ==
    /\ ~bresult.ok
    /\ bpc \in {"resolve", "locate", "failed"}
    /\ spc \in {"resolve", "locate", "failed"}
    /\ \A i \in 1..Len(events) : events[i].kind = "Err"
    /\ \A i \in 1..Len(chan) : chan[i].kind = "error"
    /\ \A i \in 1..Len(body) : body[i].kind = "error"

\* C23: when the same-author parent links above the start post form a
\* cycle, root location never returns a root, in the buffered and in the
\* streamed walk: each fetch that succeeds moves on to the parent and is
\* followed by another fetch, however many have been made, and only a fetch
\* that fails ends the loop, with its error; no Thread and no Header is
\* ever produced
C23_CycleNeverLocated ==
    [][CycleFromStart =>
          /\ NothingProduced /\ NothingProduced'
          /\ (bpc = "locate" /\ bfetches' # bfetches) =>
                /\ bfetches' = bfetches + 1
                /\ \/ /\ bpc' = "locate"
                      /\ bcur' = UriOf(chain, SameAuthorParent(chain, bcur.rkey))
                      /\ berrs' = berrs
                   \/ /\ bpc' = "failed"
                      /\ berrs' = Append(berrs, bresult'.err)
          /\ (spc = "locate" /\ sfetches' # sfetches) =>
                /\ sfetches' = sfetches + 1
                /\ task = "running" /\ task' = "waiting"
                /\ spc' = "locate" /\ scur' = scur
          /\ (spc = "locate" /\ task = "waiting" /\ task' # "waiting") =>
                \/ /\ spc' = "locate" /\ task' = "running"
                   /\ scur' = Some(UriOf(chain, SameAuthorParent(chain, scur.v.rkey)))
                   /\ serrs' = serrs
                \/ /\ spc' = "failed" /\ task' = "ended"
                   /\ serrs' = Append(serrs, Last(serrs'))
                   /\ Len(serrs') = Len(serrs) + 1]_vars

\* the streamed walk is still locating the root after more fetches than
\* twice the posts of the forest, on a cycle of two or more posts, and has
\* yielded nothing
C23_Witness ==
    /\ CycleFromStart
    /\ SameAuthorParent(chain, StartPost) # StartPost
    /\ spc = "locate" /\ sfetches = MaxHops /\ sfetches > 2 * chain.n
    /\ serrs = <<>> /\ events = <<>>

==============================================================================
